---- MODULE Spec2Model ----
(***************************************************************************)
(* Process supervision and event streaming of the Tauri commands           *)
(*   start_cleaning, generate_dataset, stop_generation  (commands/dataset) *)
(*   download_model, stop_download                      (commands/model)   *)
(*   start_inference                                    (commands/inference)*)
(*   export_to_ollama                                   (commands/export)  *)
(* Every run is a slot r in Runs; the process id of the worker spawned by   *)
(* run r is r itself (never 0).  A command call spawns a tokio task; each   *)
(* action below is one step of that task, of the worker process, or of a    *)
(* stop command.                                                            *)
(*                                                                           *)
(* Modelling choices: a stdout line is one of seven concrete texts (two JSON *)
(* records with a type, three JSON values without one, a plain text, a line  *)
(* that is not valid UTF-8); stderr lines are counted, their text is not     *)
(* kept; child.wait() returns, with the status or with an error, only once   *)
(* the worker has ended; create_dir_all succeeds; process ids are not        *)
(* reused; a command whose precondition check fails returns Err at once.     *)
(* The text of the error message is modelled apart, in `fail`: the stderr    *)
(* lines of one failing worker as texts, and the message made from them.     *)
(***************************************************************************)
EXTENDS Integers, Sequences, FiniteSets, TLC

\* ---------------------------------------------------------------- bounds
MaxRuns == 2      \* run slots (and process ids)
MaxLines == 2     \* stdout lines one worker writes
PipeCap == 1      \* lines the stderr pipe holds before a write blocks
MaxTime == 1      \* the last second of the clock
MaxCallers == 2   \* concurrent callers of stop_generation
MaxStderr == 9    \* stderr lines collected from one worker

Runs == 1..MaxRuns
Times == 0..MaxTime
Callers == 1..MaxCallers
Repos == {"repoA", "repoB"}

\* ------------------------------------------------------- worker protocol
\* Concrete stdout lines a worker may write.
LineProgress == "{\"type\":\"progress\"}"
LineError == "{\"type\":\"error\"}"
LineText == "Traceback: boom"
\* a line whose bytes are not valid UTF-8
LineBad == "\\xff\\xfe"
Lines == {LineProgress, LineError, LineText, LineBad}
\* JSON that is not a record with a string `type`: a scalar, an object without
\* the field, an object whose `type` is a number
LineScalar == "42"
LineNoType == "{\"step\":1}"
LineNumType == "{\"type\":5}"
AllLines == Lines \cup {LineScalar, LineNoType, LineNumType}

\* lines.next_line() returns Ok(Some(line)) for a line that decodes as UTF-8 and
\* Err(InvalidData) for one that does not
Utf8Ok(line) == line # LineBad

\* serde_json::from_str::<serde_json::Value>(&line).is_ok(): any JSON value parses
ParseOk(line) == line \in {LineProgress, LineError, LineScalar, LineNoType, LineNumType}

\* mutant for C24: the default is the empty string (unwrap_or_default)
EventTypeDefaultEmpty(line) ==
  CASE line = LineProgress -> "progress"
    [] line = LineError -> "error"
    [] OTHER -> ""

\* event["type"].as_str().unwrap_or("unknown"): indexing a value that is not an
\* object, or has no such key, gives Null, and as_str() of a non-string is None
EventType(line) ==
  CASE line = LineProgress -> "progress"
    [] line = LineError -> "error"
    [] OTHER -> "unknown"

\* ---------------------------------------------------------- exit status
NoStatus == [signaled |-> FALSE, code |-> 256]
Exited(c) == [signaled |-> FALSE, code |-> c]
Signaled(s) == [signaled |-> TRUE, code |-> s]
SIGTERM == 15
\* statuses of a worker that ends by itself, or is killed by a signal nobody here
\* sent (9, SIGKILL)
OwnStatuses == {Exited(0), Exited(1), Signaled(9)}
\* statuses of a worker that ends because SIGTERM was delivered to it
TermStatuses == {Signaled(SIGTERM), Exited(143)}

\* ExitStatus::success()
Success(st) == ~st.signaled /\ st.code = 0
\* status.code().unwrap_or(-1): code() is None for a signal-terminated child
StatusCode(st) == IF st.signaled THEN -1 ELSE st.code

\* ----------------------------------------------------------------- events
Ev(chan, src, line, version, ok) ==
  [chan |-> chan, src |-> src, line |-> line, version |-> version, ok |-> ok]
\* an event forwarded from a stdout line
StdoutEv(chan, line) == Ev(chan, "stdout", line, -1, FALSE)
\* an event forwarded from a stderr line (download-log)
StderrEv(chan) == Ev(chan, "stderr", "", -1, FALSE)
\* an event the supervisor synthesizes
SupEv(chan) == Ev(chan, "supervisor", "", -1, FALSE)

VARIABLES
  run,                 \* per run slot: the task's, the worker's and the log's state
  GENERATION_PID,      \* dataset.rs: static AtomicU32, 0 = none
  DOWNLOAD_PROCESSES,  \* model.rs: HashMap<String, u32>, 0 = no entry
  dirs,                \* timestamps t for which dataset/<t> exists
  files,               \* files[t]: runs whose worker wrote train.jsonl into dataset/<t>
  now,                 \* the last second chrono::Local::now() returned
  kills,               \* the libc::kill calls of the last stop command, in order
                       \* (their pid argument)
  ret,                 \* what the last stop command returned: [op, ok]
  calls,               \* per caller: its stop_generation call, step by step
  fail,                \* a failing run seen by its stderr alone: [kind, code, stderr
                       \* (the lines the worker wrote), msg (the error message)]
  legacy,              \* dataset/train.jsonl, the flat layout of old versions, exists
  listing              \* what the last list_dataset_versions call returned: the
                       \* `version` of each entry, in order

vars == <<run, GENERATION_PID, DOWNLOAD_PROCESSES, dirs, files, now, kills, ret, calls,
          fail, legacy, listing>>

IdleRun ==
  [pc |-> "idle", kind |-> "none", repo |-> "none",
   child |-> "none", status |-> NoStatus, cause |-> "none",
   sigterm |-> FALSE,   \* a SIGTERM was delivered to the living worker
   written |-> <<>>, readPos |-> 0,
   partial |-> FALSE,   \* the last line of `written` has no newline after it
   outClosed |-> FALSE, \* next_line() returned Err: the loop ended, the pipe is dropped
   errWritten |-> 0, errRead |-> 0, errTask |-> "none", outTask |-> "none",
   pyErr |-> FALSE, events |-> <<>>,
   ts |-> -1, fsRes |-> "none", waitOk |-> TRUE,
   err |-> "none",        \* the Err the command returned at a precondition check
   stopAcked |-> FALSE,   \* a stop command found this run's pid and returned Ok
   regSeq |-> 0,          \* the run registered its pid, as the regSeq-th to do so
   clobbered |-> FALSE]   \* another run overwrote or removed this run's entry

\* ------------------------------------------------------ failure message
\* A text is a sequence of characters; a stderr line is a text without newline.
NL == "\n"
ErrLineTexts == {<<>>, <<"a">>, <<"b">>}
\* non-zero exit codes of a failed worker
FailCodes == {1, 7}
NoMessage == <<"(none)">>

\* Vec<String>::join("\n")
RECURSIVE Join(_)
Join(ls) ==
  IF ls = <<>> THEN <<>>
  ELSE IF Len(ls) = 1 THEN ls[1]
  ELSE ls[1] \o <<NL>> \o Join(Tail(ls))

\* the pieces of a text between its newlines
RECURSIVE SplitNL(_)
SplitNL(text) ==
  IF \A i \in DOMAIN text : text[i] # NL THEN <<text>>
  ELSE LET i == CHOOSE i \in DOMAIN text :
                  text[i] = NL /\ \A j \in 1..(i - 1) : text[j] # NL
       IN <<SubSeq(text, 1, i - 1)>> \o SplitNL(SubSeq(text, i + 1, Len(text)))

\* str::lines(): the pieces, without the empty piece after a final newline (and
\* none at all for the empty text)
StrLines(text) ==
  LET ps == SplitNL(text) IN
  IF ps[Len(ps)] = <<>> THEN SubSeq(ps, 1, Len(ps) - 1) ELSE ps

\* export.rs: the length of the stderr tail put in the message
TailLines == 8

\* lines.into_iter().rev().take(n).collect().into_iter().rev().collect()
LastN(ls, n) == IF Len(ls) <= n THEN ls ELSE SubSeq(ls, Len(ls) - n + 1, Len(ls))

\* export_to_ollama: the message of the synthesized export:error
ExportMessage(collected) ==
  LET stderr_text == Join(collected) IN
  IF stderr_text = <<>>
    THEN <<"Export process failed (no details available)">>
    ELSE Join(LastN(StrLines(stderr_text), TailLines))

\* start_inference: the message of the synthesized inference:error
InferenceMessage(stderr_lines) ==
  LET joined == Join(stderr_lines) IN
  IF joined = <<>> THEN <<"Inference process failed">> ELSE joined

\* start_cleaning: the message of the synthesized cleaning:error
CleaningMessage == <<"Cleaning process exited with error">>

\* generate_dataset: format!("Generation exited with code {}", code)
DatasetMessage(code) == <<"Generation exited with code ", ToString(code)>>

\* the message a domain synthesizes for a worker that exited with `code`, did
\* not report the error itself and left `collected` on stderr
FailureMessage(kind, code, collected) ==
  CASE kind = "export" -> ExportMessage(collected)
    [] kind = "inference" -> InferenceMessage(collected)
    [] kind = "cleaning" -> CleaningMessage
    [] kind = "dataset" -> DatasetMessage(code)

\* a command of domain `kind` starts a worker that is going to fail
FailingWorker(kind) ==
  /\ fail.kind = "none"
  /\ fail' = [fail EXCEPT !.kind = kind]
  /\ UNCHANGED <<run, GENERATION_PID, DOWNLOAD_PROCESSES, dirs, files, now, kills, ret, calls, legacy, listing>>

\* the worker writes one more line to stderr (export and inference collect it;
\* cleaning and dataset leave it in the pipe)
WriteStderrLine(line) ==
  /\ fail.kind # "none" /\ fail.msg = NoMessage
  /\ Len(fail.stderr) < MaxStderr
  /\ fail' = [fail EXCEPT !.stderr = Append(@, line)]
  /\ UNCHANGED <<run, GENERATION_PID, DOWNLOAD_PROCESSES, dirs, files, now, kills, ret, calls, legacy, listing>>

\* the worker exits with the non-zero `code`, having reported no error itself:
\* the message of the error event the supervisor emits
SynthesizeError(code) ==
  /\ fail.kind # "none" /\ fail.msg = NoMessage
  /\ fail' = [fail EXCEPT !.code = code,
                          !.msg = FailureMessage(fail.kind, code, fail.stderr)]
  /\ UNCHANGED <<run, GENERATION_PID, DOWNLOAD_PROCESSES, dirs, files, now, kills, ret, calls, legacy, listing>>

\* a stop_generation call that has not started: pid is the value swap returned
IdleCall == [pc |-> "idle", pid |-> 0, ok |-> FALSE]

Init ==
  /\ run = [r \in Runs |-> IdleRun]
  /\ GENERATION_PID = 0
  /\ DOWNLOAD_PROCESSES = [k \in Repos |-> 0]
  /\ dirs = {}
  /\ files = [t \in Times |-> {}]
  /\ now = 0
  /\ kills = <<>>
  /\ ret = [op |-> "none", ok |-> TRUE]
  /\ calls = [c \in Callers |-> IdleCall]
  /\ fail = [kind |-> "none", code |-> 0, stderr |-> <<>>, msg |-> NoMessage]
  /\ legacy = FALSE
  /\ listing = <<>>


\* number of registrations made so far (orders the writers of a registry key)
RegCount == Cardinality({q \in Runs : run[q].regSeq > 0})

\* run r writes a registry key that holds `pid`: bookkeeping of whose entry is lost
Clobber(runs, pid, r) ==
  IF pid \in Runs \ {r} THEN [runs EXCEPT ![pid].clobbered = TRUE] ELSE runs

\* ------------------------------------------------------------ filesystem
\* std::fs::rename(dataset/<src>, dataset/<dst>): fails when the source is gone or
\* the target is a non-empty directory; `ok` is whether the OS lets it succeed.
RenameOk(src, dst, ok) ==
  /\ ok
  /\ src \in dirs
  /\ (dst = src \/ dst \notin dirs \/ files[dst] = {})

DirsAfterRename(src, dst) == (dirs \ {src}) \cup {dst}
FilesAfterRename(src, dst) ==
  IF src = dst THEN files ELSE [files EXCEPT ![dst] = files[src], ![src] = {}]

\* std::fs::remove_dir_all(dataset/<t>): Err when the directory is missing or the
\* OS refuses (`ok` false); the callers ignore the result.
RemoveOk(t, ok) == ok /\ t \in dirs
DirsAfterRemove(t, ok) == IF RemoveOk(t, ok) THEN dirs \ {t} ELSE dirs
FilesAfterRemove(t, ok) == IF RemoveOk(t, ok) THEN [files EXCEPT ![t] = {}] ELSE files
RemoveRes(t, ok) ==
  IF RemoveOk(t, ok) THEN "removed" ELSE IF t \in dirs THEN "removeFailed" ELSE "missing"

\* mutant for C29: a removal that did not succeed is reported as the run's error
AfterDiscardEscalates(res, evs) ==
  IF res = "removed" THEN evs ELSE <<SupEv("dataset:error")>>

\* `let _ = std::fs::remove_dir_all(..)`: the events the task emits next, `evs`,
\* do not depend on the result `res` of the removal
AfterDiscard(res, evs) == evs

\* something outside the program removes dataset/<t>
ExternalRemove(t) ==
  /\ t \in dirs
  /\ dirs' = dirs \ {t}
  /\ files' = [files EXCEPT ![t] = {}]
  /\ UNCHANGED <<run, GENERATION_PID, DOWNLOAD_PROCESSES, now, kills, ret, calls, fail, legacy, listing>>

\* ---------------------------------------------------------------- worker
\* The worker writes one more line to its stdout pipe (a write to a pipe whose
\* read end was dropped fails and writes nothing).
WorkerWrite(r, line) ==
  /\ run[r].child = "running"
  /\ ~run[r].outClosed /\ ~run[r].partial
  /\ Len(run[r].written) < MaxLines
  /\ run' = [run EXCEPT ![r].written = Append(@, line)]
  /\ UNCHANGED <<GENERATION_PID, DOWNLOAD_PROCESSES, dirs, files, now, kills, ret, calls, fail, legacy, listing>>

\* The worker writes the bytes of a line without the newline, as its last output.
WorkerWritePartial(r, line) ==
  /\ run[r].child = "running"
  /\ ~run[r].outClosed /\ ~run[r].partial
  /\ Len(run[r].written) < MaxLines
  /\ run' = [run EXCEPT ![r].written = Append(@, line), ![r].partial = TRUE]
  /\ UNCHANGED <<GENERATION_PID, DOWNLOAD_PROCESSES, dirs, files, now, kills, ret, calls, fail, legacy, listing>>

\* The worker writes one more line to its stderr pipe; when the pipe is full
\* (PipeCap lines unread) the write blocks the process.
WorkerWriteErr(r) ==
  /\ run[r].child = "running"
  /\ run[r].errWritten < PipeCap + 1
  /\ IF run[r].errWritten - run[r].errRead < PipeCap
       THEN run' = [run EXCEPT ![r].errWritten = @ + 1]
       ELSE run' = [run EXCEPT ![r].child = "blocked"]
  /\ UNCHANGED <<GENERATION_PID, DOWNLOAD_PROCESSES, dirs, files, now, kills, ret, calls, fail, legacy, listing>>

\* A generation worker writes train.jsonl into its --output-dir.
WorkerOutput(r) ==
  /\ run[r].child = "running"
  /\ run[r].kind = "dataset"
  /\ run[r].ts \in dirs
  /\ r \notin files[run[r].ts]
  /\ files' = [files EXCEPT ![run[r].ts] = @ \cup {r}]
  /\ UNCHANGED <<run, GENERATION_PID, DOWNLOAD_PROCESSES, dirs, now, kills, ret, calls, fail, legacy, listing>>

\* The worker ends by itself (a blocked worker only by a signal).
WorkerExit(r, st) ==
  /\ \/ run[r].child = "running"
     \/ run[r].child = "blocked" /\ st.signaled
  /\ st \in OwnStatuses
  /\ run' = [run EXCEPT ![r].child = "zombie", ![r].status = st, ![r].cause = "self",
                        ![r].sigterm = FALSE]
  /\ UNCHANGED <<GENERATION_PID, DOWNLOAD_PROCESSES, dirs, files, now, kills, ret, calls, fail, legacy, listing>>

\* The worker ends because of the SIGTERM a stop command delivered.
WorkerTerminate(r, st) ==
  /\ run[r].child \in {"running", "blocked"}
  /\ run[r].sigterm
  /\ st \in TermStatuses
  /\ run' = [run EXCEPT ![r].child = "zombie", ![r].status = st, ![r].cause = "stop",
                        ![r].sigterm = FALSE]
  /\ UNCHANGED <<GENERATION_PID, DOWNLOAD_PROCESSES, dirs, files, now, kills, ret, calls, fail, legacy, listing>>

\* stdout of run r is at end of stream: the worker is gone and every line is read
StdoutEof(r) ==
  /\ run[r].child \in {"zombie", "reaped"}
  /\ run[r].readPos = Len(run[r].written)

\* lines.next_line() of run r has a line to return (or an error): a line with
\* its newline is in the pipe, or the stream is at its end with unterminated
\* bytes left, which next_line() returns as the last line
LineReady(r) ==
  /\ run[r].readPos < Len(run[r].written) /\ ~run[r].outClosed
  /\ \/ run[r].readPos + 1 < Len(run[r].written)
     \/ ~run[r].partial
     \/ run[r].child \in {"zombie", "reaped"}

\* the next unread stdout line of run r
NextLine(r) == run[r].written[run[r].readPos + 1]

\* the `while let Ok(Some(line)) = lines.next_line().await` loop of run r is
\* over: next_line() returned Ok(None) at end of stream, or Err
StdoutLoopEnd(r) == StdoutEof(r) \/ run[r].outClosed

\* run r after one next_line() call that returned a line or an error: the line
\* is consumed and `evs` emitted, or the loop ends and its reader is dropped
AfterNextLine(r, evs) ==
  IF Utf8Ok(NextLine(r))
    THEN [run EXCEPT ![r].readPos = @ + 1, ![r].events = @ \o evs]
    ELSE [run EXCEPT ![r].outClosed = TRUE]

\* the seconds chrono::Local::now() may return next: the clock never goes back
ClockReads == now..MaxTime

\* libc::kill(pid, SIGTERM) on process `pid`: delivered if the process is alive
Deliver(runs, pid) ==
  IF runs[pid].child \in {"running", "blocked"}
    THEN [runs EXCEPT ![pid].sigterm = TRUE]
    ELSE runs

\* run r after its command returned Err(err) at a precondition check, before
\* anything else was done: no task is spawned
Rejected(r, kind, err) ==
  [run EXCEPT ![r].pc = "rejected", ![r].kind = kind, ![r].err = err]

\* ------------------------------------------------------- stop_generation
\* mutant for C11: the `pid == 0` early return is missing, kill is called with 0
stop_generationNoMissCheck ==
  LET pid == GENERATION_PID IN
  /\ GENERATION_PID' = 0
  /\ kills' = <<-pid, pid>>
  /\ run' = IF pid = 0 THEN run ELSE Deliver([run EXCEPT ![pid].stopAcked = TRUE], pid)
  /\ ret' = [op |-> "stop_generation", ok |-> TRUE]
  /\ UNCHANGED <<DOWNLOAD_PROCESSES, dirs, files, now, calls, fail, legacy, listing>>

stop_generation ==
  LET pid == GENERATION_PID IN
  /\ GENERATION_PID' = 0
  /\ IF pid = 0
       THEN /\ ret' = [op |-> "stop_generation", ok |-> FALSE]
            /\ kills' = <<>>
            /\ run' = run
       ELSE /\ kills' = <<-pid, pid>>
            /\ run' = Deliver([run EXCEPT ![pid].stopAcked = TRUE], pid)
            /\ ret' = [op |-> "stop_generation", ok |-> TRUE]
  /\ UNCHANGED <<DOWNLOAD_PROCESSES, dirs, files, now, calls, fail, legacy, listing>>

\* mutant for C18: the slot is read with a load and not cleared in the same step
StopGenLoadOnly(c) ==
  /\ calls[c].pc = "idle"
  /\ calls' = [calls EXCEPT ![c].pc = "swapped", ![c].pid = GENERATION_PID]
  /\ UNCHANGED <<run, GENERATION_PID, DOWNLOAD_PROCESSES, dirs, files, now, kills, ret, fail, legacy, listing>>

\* stop_generation step by step, for concurrent callers.  First step of caller
\* c: `GENERATION_PID.swap(0, Ordering::SeqCst)`, one atomic read-and-write.
StopGenSwap(c) ==
  /\ calls[c].pc = "idle"
  /\ calls' = [calls EXCEPT ![c].pc = "swapped", ![c].pid = GENERATION_PID]
  /\ GENERATION_PID' = 0
  /\ UNCHANGED <<run, DOWNLOAD_PROCESSES, dirs, files, now, kills, ret, fail, legacy, listing>>

\* second step of caller c: the `pid == 0` early return, or the two kills and Ok
StopGenReturn(c) ==
  LET pid == calls[c].pid IN
  /\ calls[c].pc = "swapped"
  /\ calls' = [calls EXCEPT ![c].pc = "returned", ![c].ok = (pid # 0)]
  /\ IF pid = 0
       THEN /\ ret' = [op |-> "stop_generation", ok |-> FALSE]
            /\ kills' = <<>>
            /\ run' = run
       ELSE /\ kills' = <<-pid, pid>>
            /\ run' = Deliver([run EXCEPT ![pid].stopAcked = TRUE], pid)
            /\ ret' = [op |-> "stop_generation", ok |-> TRUE]
  /\ UNCHANGED <<GENERATION_PID, DOWNLOAD_PROCESSES, dirs, files, now, fail, legacy, listing>>

\* -------------------------------------------- generate_dataset, rejected
\* mutant for C22: the staging directory is allocated before the checks
generate_datasetErrAfterAllocate(r) ==
  /\ run[r].pc = "idle"
  /\ \E err \in {"PythonNotReady", "NoCleanedData", "ScriptNotFound"},
        timestamp \in ClockReads :
       /\ now' = timestamp
       /\ dirs' = dirs \cup {timestamp}
       /\ run' = Rejected(r, "dataset", err)
  /\ UNCHANGED <<GENERATION_PID, DOWNLOAD_PROCESSES, files, kills, ret, calls, fail, legacy, listing>>

\* generate_dataset returns Err: is_ready() is false, segments.jsonl or the
\* script is absent
generate_datasetErr(r) ==
  /\ run[r].pc = "idle"
  /\ \E err \in {"PythonNotReady", "NoCleanedData", "ScriptNotFound"} :
       run' = Rejected(r, "dataset", err)
  /\ UNCHANGED <<GENERATION_PID, DOWNLOAD_PROCESSES, dirs, files, now, kills, ret, calls, fail, legacy, listing>>

\* ------------------------------------------------------ generate_dataset
\* The command up to `Ok(timestamp)`: allocates the staging directory and spawns
\* the task.
generate_dataset(r) ==
  /\ run[r].pc = "idle"
  /\ \E timestamp \in ClockReads :
       /\ now' = timestamp
       /\ run' = [run EXCEPT ![r].pc = "spawn", ![r].kind = "dataset",
                             ![r].ts = timestamp]
       /\ dirs' = dirs \cup {timestamp}
  /\ UNCHANGED <<GENERATION_PID, DOWNLOAD_PROCESSES, files, kills, ret, calls, fail, legacy, listing>>

\* mutant for C8: the pid is never stored, the task goes on to read stdout
GenSpawnOkUnregistered(r) ==
  /\ run[r].pc = "spawn" /\ run[r].kind = "dataset"
  /\ run' = [run EXCEPT ![r].pc = "read", ![r].child = "running"]
  /\ UNCHANGED <<GENERATION_PID, DOWNLOAD_PROCESSES, dirs, files, now, kills, ret, calls, fail, legacy, listing>>

\* Command::spawn() returned Ok(child)
GenSpawnOk(r) ==
  /\ run[r].pc = "spawn" /\ run[r].kind = "dataset"
  /\ run' = [run EXCEPT ![r].pc = "reg", ![r].child = "running"]
  /\ UNCHANGED <<GENERATION_PID, DOWNLOAD_PROCESSES, dirs, files, now, kills, ret, calls, fail, legacy, listing>>

\* mutant for C4: the spawn-failure branch forgets to discard the directory
GenSpawnErrNoDiscard(r) ==
  /\ run[r].pc = "spawn" /\ run[r].kind = "dataset"
  /\ run' = [run EXCEPT ![r].pc = "done",
                        ![r].events = Append(@, SupEv("dataset:error"))]
  /\ UNCHANGED <<GENERATION_PID, DOWNLOAD_PROCESSES, dirs, files, now, kills, ret, calls, fail, legacy, listing>>

\* Command::spawn() returned Err(e)
GenSpawnErr(r) ==
  /\ run[r].pc = "spawn" /\ run[r].kind = "dataset"
  /\ \E ok \in BOOLEAN :
       /\ dirs' = DirsAfterRemove(run[r].ts, ok)
       /\ files' = FilesAfterRemove(run[r].ts, ok)
       /\ run' = [run EXCEPT ![r].pc = "done",
                             ![r].fsRes = RemoveRes(run[r].ts, ok),
                             ![r].events = @ \o AfterDiscard(RemoveRes(run[r].ts, ok),
                                                             <<SupEv("dataset:error")>>)]
  /\ UNCHANGED <<GENERATION_PID, DOWNLOAD_PROCESSES, now, kills, ret, calls, fail, legacy, listing>>

\* GENERATION_PID.store(pid)
GenRegister(r) ==
  /\ run[r].pc = "reg" /\ run[r].kind = "dataset"
  /\ GENERATION_PID' = r
  /\ run' = Clobber([run EXCEPT ![r].pc = "read", ![r].regSeq = RegCount + 1],
                    GENERATION_PID, r)
  /\ UNCHANGED <<DOWNLOAD_PROCESSES, dirs, files, now, kills, ret, calls, fail, legacy, listing>>

\* the event of one stdout line, cleaning and dataset: parsed JSON goes to
\* <prefix>:<type>, anything else to <prefix>:log
RouteWithLog(prefix, line) ==
  IF ParseOk(line)
    THEN StdoutEv(prefix \o ":" \o EventType(line), line)
    ELSE StdoutEv(prefix \o ":log", line)

\* one turn of the `while let Ok(Some(line))` loop
GenReadLine(r) ==
  /\ run[r].pc = "read" /\ run[r].kind = "dataset"
  /\ LineReady(r)
  /\ run' = AfterNextLine(r, <<RouteWithLog("dataset", NextLine(r))>>)
  /\ UNCHANGED <<GENERATION_PID, DOWNLOAD_PROCESSES, dirs, files, now, kills, ret, calls, fail, legacy, listing>>

\* the loop is over; then GENERATION_PID.store(0)
GenClearPid(r) ==
  /\ run[r].pc = "read" /\ run[r].kind = "dataset"
  /\ StdoutLoopEnd(r)
  /\ GENERATION_PID' = 0
  /\ run' = Clobber([run EXCEPT ![r].pc = "wait"], GENERATION_PID, r)
  /\ UNCHANGED <<DOWNLOAD_PROCESSES, dirs, files, now, kills, ret, calls, fail, legacy, listing>>

\* mutant for C6: only exit code 143 counts as a stop, a signal death does not
GenOutcomeOnly143(st) ==
  IF Success(st) THEN "dataset:version"
  ELSE IF StatusCode(st) = 143 THEN "dataset:stopped"
  ELSE "dataset:error"

\* the terminal channel generate_dataset picks for a status child.wait() returned
GenOutcome(st) ==
  IF Success(st) THEN "dataset:version"
  ELSE IF StatusCode(st) = 143 \/ StatusCode(st) = -1 THEN "dataset:stopped"
  ELSE "dataset:error"

\* mutant for C2: the stopped branch falls through into the error branch
GenFailureEventsFallThrough(waitOk, st) ==
  IF ~waitOk THEN <<SupEv("dataset:error")>>
  ELSE IF GenOutcome(st) = "dataset:stopped"
    THEN <<SupEv("dataset:stopped"), SupEv("dataset:error")>>
  ELSE <<SupEv(GenOutcome(st))>>

\* the events generate_dataset emits when the run did not succeed: wait failed
\* (Err(e)), or the status is not success
GenFailureEvents(waitOk, st) ==
  IF waitOk THEN <<SupEv(GenOutcome(st))>> ELSE <<SupEv("dataset:error")>>

\* child.wait() returns, then promote or discard, then the terminal event
GenFinish(r) ==
  /\ run[r].pc = "wait" /\ run[r].kind = "dataset"
  /\ run[r].child = "zombie"
  /\ \E waitOk \in BOOLEAN, ok \in BOOLEAN :
       LET st == run[r].status
           src == run[r].ts
       IN
       IF waitOk /\ Success(st)
         THEN \E final_ts \in ClockReads :
              LET renamed == RenameOk(src, final_ts, ok) IN
              /\ now' = final_ts
              /\ dirs' = IF renamed THEN DirsAfterRename(src, final_ts) ELSE dirs
              /\ files' = IF renamed THEN FilesAfterRename(src, final_ts) ELSE files
              /\ run' = [run EXCEPT
                   ![r].pc = "done", ![r].child = "reaped", ![r].waitOk = TRUE,
                   ![r].fsRes = IF renamed THEN "renamed" ELSE "kept",
                   ![r].events = Append(@, Ev("dataset:version", "supervisor", "",
                                              IF renamed THEN final_ts ELSE src, FALSE))]
         ELSE /\ dirs' = DirsAfterRemove(src, ok)
              /\ files' = FilesAfterRemove(src, ok)
              /\ now' = now
              /\ run' = [run EXCEPT
                   ![r].pc = "done", ![r].child = "reaped", ![r].waitOk = waitOk,
                   ![r].fsRes = RemoveRes(src, ok),
                   ![r].events = @ \o AfterDiscard(RemoveRes(src, ok),
                                                   GenFailureEvents(waitOk, st))]
  /\ UNCHANGED <<GENERATION_PID, DOWNLOAD_PROCESSES, kills, ret, calls, fail, legacy, listing>>

\* -------------------------------------------------------- stderr readers
\* stderr of run r is at end of stream
StderrEof(r) ==
  /\ run[r].child \in {"zombie", "reaped"}
  /\ run[r].errRead = run[r].errWritten

\* run r after its stderr reader took one line off the pipe: a writer blocked on
\* the full pipe completes its write
ErrTaken(r) ==
  IF run[r].child = "blocked"
    THEN [run EXCEPT ![r].errRead = @ + 1, ![r].errWritten = @ + 1,
                     ![r].child = "running"]
    ELSE [run EXCEPT ![r].errRead = @ + 1]

\* export, inference: the spawned task pushes one stderr line to its Vec
CollectErrLine(r) ==
  /\ run[r].kind \in {"export", "inference"}
  /\ run[r].errTask = "running"
  /\ run[r].errRead < run[r].errWritten
  /\ run' = ErrTaken(r)
  /\ UNCHANGED <<GENERATION_PID, DOWNLOAD_PROCESSES, dirs, files, now, kills, ret, calls, fail, legacy, listing>>

\* the stderr reader of any kind sees end of stream and finishes
ErrTaskEnd(r) ==
  /\ run[r].errTask = "running"
  /\ StderrEof(r)
  /\ run' = [run EXCEPT ![r].errTask = "done"]
  /\ UNCHANGED <<GENERATION_PID, DOWNLOAD_PROCESSES, dirs, files, now, kills, ret, calls, fail, legacy, listing>>

\* -------------------------------------------------------- start_cleaning
start_cleaning(r) ==
  /\ run[r].pc = "idle"
  /\ run' = [run EXCEPT ![r].pc = "spawn", ![r].kind = "cleaning"]
  /\ UNCHANGED <<GENERATION_PID, DOWNLOAD_PROCESSES, dirs, files, now, kills, ret, calls, fail, legacy, listing>>

\* start_cleaning returns Err: is_ready() is false, raw/ or the script is absent
start_cleaningErr(r) ==
  /\ run[r].pc = "idle"
  /\ \E err \in {"PythonNotReady", "NoRawData", "ScriptNotFound"} :
       run' = Rejected(r, "cleaning", err)
  /\ UNCHANGED <<GENERATION_PID, DOWNLOAD_PROCESSES, dirs, files, now, kills, ret, calls, fail, legacy, listing>>

CleanSpawnOk(r) ==
  /\ run[r].pc = "spawn" /\ run[r].kind = "cleaning"
  /\ run' = [run EXCEPT ![r].pc = "read", ![r].child = "running"]
  /\ UNCHANGED <<GENERATION_PID, DOWNLOAD_PROCESSES, dirs, files, now, kills, ret, calls, fail, legacy, listing>>

CleanSpawnErr(r) ==
  /\ run[r].pc = "spawn" /\ run[r].kind = "cleaning"
  /\ run' = [run EXCEPT ![r].pc = "done",
                        ![r].events = Append(@, SupEv("cleaning:error"))]
  /\ UNCHANGED <<GENERATION_PID, DOWNLOAD_PROCESSES, dirs, files, now, kills, ret, calls, fail, legacy, listing>>

CleanReadLine(r) ==
  /\ run[r].pc = "read" /\ run[r].kind = "cleaning"
  /\ LineReady(r)
  /\ run' = AfterNextLine(r, <<RouteWithLog("cleaning", NextLine(r))>>)
  /\ UNCHANGED <<GENERATION_PID, DOWNLOAD_PROCESSES, dirs, files, now, kills, ret, calls, fail, legacy, listing>>

\* the events start_cleaning emits after child.wait(): none on success
CleanOutcome(waitOk, st) ==
  IF waitOk /\ Success(st) THEN <<>> ELSE <<SupEv("cleaning:error")>>

\* end of stream, child.wait() returns, the terminal event if any
CleanFinish(r) ==
  /\ run[r].pc = "read" /\ run[r].kind = "cleaning"
  /\ StdoutLoopEnd(r)
  /\ run[r].child = "zombie"
  /\ \E waitOk \in BOOLEAN :
       run' = [run EXCEPT ![r].pc = "done", ![r].child = "reaped",
                          ![r].waitOk = waitOk,
                          ![r].events = @ \o CleanOutcome(waitOk, run[r].status)]
  /\ UNCHANGED <<GENERATION_PID, DOWNLOAD_PROCESSES, dirs, files, now, kills, ret, calls, fail, legacy, listing>>

\* ------------------------------------------------------- start_inference
start_inference(r) ==
  /\ run[r].pc = "idle"
  /\ run' = [run EXCEPT ![r].pc = "spawn", ![r].kind = "inference"]
  /\ UNCHANGED <<GENERATION_PID, DOWNLOAD_PROCESSES, dirs, files, now, kills, ret, calls, fail, legacy, listing>>

\* start_inference returns Err: is_ready() is false or the script is absent
start_inferenceErr(r) ==
  /\ run[r].pc = "idle"
  /\ \E err \in {"PythonNotReady", "ScriptNotFound"} :
       run' = Rejected(r, "inference", err)
  /\ UNCHANGED <<GENERATION_PID, DOWNLOAD_PROCESSES, dirs, files, now, kills, ret, calls, fail, legacy, listing>>

\* spawn() returned Ok(child); the stderr collector task is spawned
InfSpawnOk(r) ==
  /\ run[r].pc = "spawn" /\ run[r].kind = "inference"
  /\ run' = [run EXCEPT ![r].pc = "read", ![r].child = "running",
                        ![r].errTask = "running"]
  /\ UNCHANGED <<GENERATION_PID, DOWNLOAD_PROCESSES, dirs, files, now, kills, ret, calls, fail, legacy, listing>>

InfSpawnErr(r) ==
  /\ run[r].pc = "spawn" /\ run[r].kind = "inference"
  /\ run' = [run EXCEPT ![r].pc = "done",
                        ![r].events = Append(@, SupEv("inference:error"))]
  /\ UNCHANGED <<GENERATION_PID, DOWNLOAD_PROCESSES, dirs, files, now, kills, ret, calls, fail, legacy, listing>>

\* the events of one stdout line, inference and export: parsed JSON goes to
\* <prefix>:<type>, anything else is dropped
RouteNoLog(prefix, line) ==
  IF ParseOk(line)
    THEN <<StdoutEv(prefix \o ":" \o EventType(line), line)>>
    ELSE <<>>

InfReadLine(r) ==
  /\ run[r].pc = "read" /\ run[r].kind = "inference"
  /\ LineReady(r)
  /\ run' = AfterNextLine(r, RouteNoLog("inference", NextLine(r)))
  /\ UNCHANGED <<GENERATION_PID, DOWNLOAD_PROCESSES, dirs, files, now, kills, ret, calls, fail, legacy, listing>>

\* end of stream and child.wait() returns: "done" with nothing to report,
\* "error" to report at once (wait failed), "stderr" to report after the
\* stderr collector was awaited
InfAfterWait(waitOk, st) ==
  IF ~waitOk THEN "error" ELSE IF Success(st) THEN "done" ELSE "stderr"

InfWait(r) ==
  /\ run[r].pc = "read" /\ run[r].kind = "inference"
  /\ StdoutLoopEnd(r)
  /\ run[r].child = "zombie"
  /\ \E waitOk \in BOOLEAN :
       LET next == InfAfterWait(waitOk, run[r].status) IN
       run' = [run EXCEPT
         ![r].pc = IF next = "stderr" THEN "errjoin" ELSE "done",
         ![r].child = "reaped", ![r].waitOk = waitOk,
         ![r].events = IF next = "error" THEN Append(@, SupEv("inference:error"))
                       ELSE @]
  /\ UNCHANGED <<GENERATION_PID, DOWNLOAD_PROCESSES, dirs, files, now, kills, ret, calls, fail, legacy, listing>>

\* handle.await returned the collected stderr lines; inference:error
InfFail(r) ==
  /\ run[r].pc = "errjoin" /\ run[r].kind = "inference"
  /\ run[r].errTask = "done"
  /\ run' = [run EXCEPT ![r].pc = "done",
                        ![r].events = Append(@, SupEv("inference:error"))]
  /\ UNCHANGED <<GENERATION_PID, DOWNLOAD_PROCESSES, dirs, files, now, kills, ret, calls, fail, legacy, listing>>

\* ------------------------------------------------------ export_to_ollama
export_to_ollama(r) ==
  /\ run[r].pc = "idle"
  /\ run' = [run EXCEPT ![r].pc = "spawn", ![r].kind = "export"]
  /\ UNCHANGED <<GENERATION_PID, DOWNLOAD_PROCESSES, dirs, files, now, kills, ret, calls, fail, legacy, listing>>

\* export_to_ollama returns Err: is_ready() is false, the script or the adapter
\* is absent
export_to_ollamaErr(r) ==
  /\ run[r].pc = "idle"
  /\ \E err \in {"PythonNotReady", "ScriptNotFound", "NoAdapter"} :
       run' = Rejected(r, "export", err)
  /\ UNCHANGED <<GENERATION_PID, DOWNLOAD_PROCESSES, dirs, files, now, kills, ret, calls, fail, legacy, listing>>

ExpSpawnOk(r) ==
  /\ run[r].pc = "spawn" /\ run[r].kind = "export"
  /\ run' = [run EXCEPT ![r].pc = "read", ![r].child = "running",
                        ![r].errTask = "running"]
  /\ UNCHANGED <<GENERATION_PID, DOWNLOAD_PROCESSES, dirs, files, now, kills, ret, calls, fail, legacy, listing>>

ExpSpawnErr(r) ==
  /\ run[r].pc = "spawn" /\ run[r].kind = "export"
  /\ run' = [run EXCEPT ![r].pc = "done",
                        ![r].events = Append(@, SupEv("export:error"))]
  /\ UNCHANGED <<GENERATION_PID, DOWNLOAD_PROCESSES, dirs, files, now, kills, ret, calls, fail, legacy, listing>>

\* python_emitted_error after one more line
PythonEmittedError(was, line) == was \/ (ParseOk(line) /\ EventType(line) = "error")

ExpReadLine(r) ==
  /\ run[r].pc = "read" /\ run[r].kind = "export"
  /\ LineReady(r)
  /\ run' = [AfterNextLine(r, RouteNoLog("export", NextLine(r))) EXCEPT
               ![r].pyErr = PythonEmittedError(@, NextLine(r))]
  /\ UNCHANGED <<GENERATION_PID, DOWNLOAD_PROCESSES, dirs, files, now, kills, ret, calls, fail, legacy, listing>>

\* as InfAfterWait; a failure the worker reported itself is not reported again
ExpAfterWait(waitOk, st, pyErr) ==
  IF ~waitOk THEN "error"
  ELSE IF ~Success(st) /\ ~pyErr THEN "stderr" ELSE "done"

ExpWait(r) ==
  /\ run[r].pc = "read" /\ run[r].kind = "export"
  /\ StdoutLoopEnd(r)
  /\ run[r].child = "zombie"
  /\ \E waitOk \in BOOLEAN :
       LET next == ExpAfterWait(waitOk, run[r].status, run[r].pyErr) IN
       run' = [run EXCEPT
         ![r].pc = IF next = "stderr" THEN "errjoin" ELSE "done",
         ![r].child = "reaped", ![r].waitOk = waitOk,
         ![r].events = IF next = "error" THEN Append(@, SupEv("export:error"))
                       ELSE @]
  /\ UNCHANGED <<GENERATION_PID, DOWNLOAD_PROCESSES, dirs, files, now, kills, ret, calls, fail, legacy, listing>>

ExpFail(r) ==
  /\ run[r].pc = "errjoin" /\ run[r].kind = "export"
  /\ run[r].errTask = "done"
  /\ run' = [run EXCEPT ![r].pc = "done",
                        ![r].events = Append(@, SupEv("export:error"))]
  /\ UNCHANGED <<GENERATION_PID, DOWNLOAD_PROCESSES, dirs, files, now, kills, ret, calls, fail, legacy, listing>>

\* -------------------------------------------------------- download_model
download_model(r, repo_id) ==
  /\ run[r].pc = "idle"
  /\ run' = [run EXCEPT ![r].pc = "spawn", ![r].kind = "download", ![r].repo = repo_id]
  /\ UNCHANGED <<GENERATION_PID, DOWNLOAD_PROCESSES, dirs, files, now, kills, ret, calls, fail, legacy, listing>>

\* download_model returns Err: is_ready() is false or the script is absent
download_modelErr(r, repo_id) ==
  /\ run[r].pc = "idle"
  /\ \E err \in {"PythonNotReady", "ScriptNotFound"} :
       run' = [Rejected(r, "download", err) EXCEPT ![r].repo = repo_id]
  /\ UNCHANGED <<GENERATION_PID, DOWNLOAD_PROCESSES, dirs, files, now, kills, ret, calls, fail, legacy, listing>>

DlSpawnOk(r) ==
  /\ run[r].pc = "spawn" /\ run[r].kind = "download"
  /\ run' = [run EXCEPT ![r].pc = "reg", ![r].child = "running"]
  /\ UNCHANGED <<GENERATION_PID, DOWNLOAD_PROCESSES, dirs, files, now, kills, ret, calls, fail, legacy, listing>>

\* mutant for C21: the spawn-failure branch removes the key from the map, as
\* the branch of a spawned child does
DlSpawnErrDeregisters(r) ==
  /\ run[r].pc = "spawn" /\ run[r].kind = "download"
  /\ DOWNLOAD_PROCESSES' = [DOWNLOAD_PROCESSES EXCEPT ![run[r].repo] = 0]
  /\ run' = [run EXCEPT ![r].pc = "done",
                        ![r].events = Append(@, SupEv("download-finished"))]
  /\ UNCHANGED <<GENERATION_PID, dirs, files, now, kills, ret, calls, fail, legacy, listing>>

\* Command::spawn() returned Err(e): download-finished with success false
DlSpawnErr(r) ==
  /\ run[r].pc = "spawn" /\ run[r].kind = "download"
  /\ run' = [run EXCEPT ![r].pc = "done",
                        ![r].events = Append(@, SupEv("download-finished"))]
  /\ UNCHANGED <<GENERATION_PID, DOWNLOAD_PROCESSES, dirs, files, now, kills, ret, calls, fail, legacy, listing>>

\* map.insert(repo_id, pid); then the stdout and the stderr task are spawned
DlRegister(r) ==
  /\ run[r].pc = "reg" /\ run[r].kind = "download"
  /\ DOWNLOAD_PROCESSES' = [DOWNLOAD_PROCESSES EXCEPT ![run[r].repo] = r]
  /\ run' = Clobber([run EXCEPT ![r].pc = "join", ![r].regSeq = RegCount + 1,
                                ![r].outTask = "running", ![r].errTask = "running"],
                    DOWNLOAD_PROCESSES[run[r].repo], r)
  /\ UNCHANGED <<GENERATION_PID, dirs, files, now, kills, ret, calls, fail, legacy, listing>>

\* stdout_task: every line goes to download-progress as {repo_id, raw}
DlReadLine(r) ==
  /\ run[r].kind = "download" /\ run[r].outTask = "running"
  /\ LineReady(r)
  /\ run' = AfterNextLine(r, <<StdoutEv("download-progress", NextLine(r))>>)
  /\ UNCHANGED <<GENERATION_PID, DOWNLOAD_PROCESSES, dirs, files, now, kills, ret, calls, fail, legacy, listing>>

DlOutTaskEnd(r) ==
  /\ run[r].kind = "download" /\ run[r].outTask = "running"
  /\ StdoutLoopEnd(r)
  /\ run' = [run EXCEPT ![r].outTask = "done"]
  /\ UNCHANGED <<GENERATION_PID, DOWNLOAD_PROCESSES, dirs, files, now, kills, ret, calls, fail, legacy, listing>>

\* stderr_task: every line goes to download-log
DlErrLine(r) ==
  /\ run[r].kind = "download" /\ run[r].errTask = "running"
  /\ run[r].errRead < run[r].errWritten
  /\ run' = [ErrTaken(r) EXCEPT ![r].events = Append(@, StderrEv("download-log"))]
  /\ UNCHANGED <<GENERATION_PID, DOWNLOAD_PROCESSES, dirs, files, now, kills, ret, calls, fail, legacy, listing>>

\* both tasks are joined, then child.wait() returns
DlWait(r) ==
  /\ run[r].pc = "join" /\ run[r].kind = "download"
  /\ run[r].outTask = "done" /\ run[r].errTask = "done"
  /\ run[r].child = "zombie"
  /\ \E waitOk \in BOOLEAN :
       run' = [run EXCEPT ![r].pc = "dereg", ![r].child = "reaped", ![r].waitOk = waitOk]
  /\ UNCHANGED <<GENERATION_PID, DOWNLOAD_PROCESSES, dirs, files, now, kills, ret, calls, fail, legacy, listing>>

\* status.map(|s| s.success()).unwrap_or(false)
ExitOk(waitOk, st) == waitOk /\ Success(st)

\* mutant for C10: the entry is removed only when child.wait() returned Ok
DlDeregisterOnOk(map, repo_id, waitOk) ==
  IF waitOk THEN [map EXCEPT ![repo_id] = 0] ELSE map

\* the map after `map.remove(&repo_id)`, which follows child.wait() whatever
\* it returned
DlDeregister(map, repo_id, waitOk) == [map EXCEPT ![repo_id] = 0]

\* mutant for C32: removing a key that has no entry is an error that ends the
\* task (`map.remove(&repo_id).expect(..)`), before download-finished is emitted
DlFinishStrict(r) ==
  /\ run[r].pc = "dereg" /\ run[r].kind = "download"
  /\ IF DOWNLOAD_PROCESSES[run[r].repo] = 0
       THEN /\ DOWNLOAD_PROCESSES' = DOWNLOAD_PROCESSES
            /\ run' = [run EXCEPT ![r].pc = "done"]
       ELSE /\ DOWNLOAD_PROCESSES' =
                 DlDeregister(DOWNLOAD_PROCESSES, run[r].repo, run[r].waitOk)
            /\ run' = Clobber([run EXCEPT
                        ![r].pc = "done",
                        ![r].events = Append(@, Ev("download-finished", "supervisor", "",
                                                   -1, ExitOk(run[r].waitOk, run[r].status)))],
                      DOWNLOAD_PROCESSES[run[r].repo], r)
  /\ UNCHANGED <<GENERATION_PID, dirs, files, now, kills, ret, calls, fail, legacy, listing>>

\* map.remove(repo_id), then download-finished {repo_id, success}
DlFinish(r) ==
  /\ run[r].pc = "dereg" /\ run[r].kind = "download"
  /\ DOWNLOAD_PROCESSES' = DlDeregister(DOWNLOAD_PROCESSES, run[r].repo, run[r].waitOk)
  /\ run' = Clobber([run EXCEPT
                      ![r].pc = "done",
                      ![r].events = Append(@, Ev("download-finished", "supervisor", "", -1,
                                                 ExitOk(run[r].waitOk, run[r].status)))],
                    DOWNLOAD_PROCESSES[run[r].repo], r)
  /\ UNCHANGED <<GENERATION_PID, dirs, files, now, kills, ret, calls, fail, legacy, listing>>

\* --------------------------------------------------------- stop_download
\* mutant for C17: once the key is found, every download in the map is signalled
stop_downloadEveryEntry(repo_id) ==
  LET pid == DOWNLOAD_PROCESSES[repo_id]
      all == {DOWNLOAD_PROCESSES[k] : k \in Repos} \ {0}
  IN
  /\ IF pid # 0
       THEN /\ kills' = <<pid>>
            /\ run' = [r \in Runs |->
                         IF r \in all /\ run[r].child \in {"running", "blocked"}
                           THEN [run[r] EXCEPT !.sigterm = TRUE, !.stopAcked = (r = pid \/ @)]
                           ELSE [run[r] EXCEPT !.stopAcked = (r = pid \/ @)]]
            /\ ret' = [op |-> "stop_download", ok |-> TRUE]
       ELSE /\ ret' = [op |-> "stop_download", ok |-> FALSE]
            /\ kills' = <<>>
            /\ run' = run
  /\ UNCHANGED <<GENERATION_PID, DOWNLOAD_PROCESSES, dirs, files, now, calls, fail, legacy, listing>>

stop_download(repo_id) ==
  LET pid == DOWNLOAD_PROCESSES[repo_id] IN
  /\ IF pid # 0
       THEN /\ kills' = <<pid>>
            /\ run' = Deliver([run EXCEPT ![pid].stopAcked = TRUE], pid)
            /\ ret' = [op |-> "stop_download", ok |-> TRUE]
       ELSE /\ ret' = [op |-> "stop_download", ok |-> FALSE]
            /\ kills' = <<>>
            /\ run' = run
  /\ UNCHANGED <<GENERATION_PID, DOWNLOAD_PROCESSES, dirs, files, now, calls, fail, legacy, listing>>

\* ------------------------------------------------- list_dataset_versions
\* A name is the sequence of its bytes.  format("%Y%m%d_%H%M%S") of second t of
\* the clock: "20260211_10303<t>"
TsName(t) == <<50, 48, 50, 54, 48, 50, 49, 49, 95, 49, 48, 51, 48, 51, 48 + t>>
\* "legacy"
LegacyName == <<108, 101, 103, 97, 99, 121>>

\* Ord for String, a.cmp(&b): byte by byte, a proper prefix is less
RECURSIVE StrCmp(_, _)
StrCmp(a, b) ==
  IF a = <<>> /\ b = <<>> THEN 0
  ELSE IF a = <<>> THEN -1
  ELSE IF b = <<>> THEN 1
  ELSE IF Head(a) < Head(b) THEN -1
  ELSE IF Head(a) > Head(b) THEN 1
  ELSE StrCmp(Tail(a), Tail(b))

\* the comparator of the sort: |a, b| b.version.cmp(&a.version)
ListCmp(a, b) == StrCmp(b, a)

\* versions.sort_by(ListCmp), a stable sort: v goes before the first element it
\* is less than under the comparator
RECURSIVE InsertSorted(_, _)
InsertSorted(sorted, v) ==
  IF sorted = <<>> THEN <<v>>
  ELSE IF ListCmp(v, Head(sorted)) = -1 THEN <<v>> \o sorted
  ELSE <<Head(sorted)>> \o InsertSorted(Tail(sorted), v)

RECURSIVE SortBy(_)
SortBy(vs) ==
  IF vs = <<>> THEN <<>>
  ELSE InsertSorted(SortBy(SubSeq(vs, 1, Len(vs) - 1)), vs[Len(vs)])

\* the directories under dataset/ that hold a train.jsonl
VersionDirs == {t \in dirs : files[t] # {}}

\* the orders in which read_dir may yield the members of `set`
Orders(set) ==
  {o \in [1..Cardinality(set) -> set] : \A i, j \in DOMAIN o : i # j => o[i] # o[j]}

\* list_dataset_versions: an entry for each directory with train.jsonl, in the
\* order read_dir yields them, then the "legacy" entry if dataset/train.jsonl
\* exists, then the sort
list_dataset_versions ==
  /\ \E o \in Orders(VersionDirs) :
       LET versions == [i \in DOMAIN o |-> TsName(o[i])] IN
       listing' = SortBy(IF legacy THEN Append(versions, LegacyName) ELSE versions)
  /\ UNCHANGED <<run, GENERATION_PID, DOWNLOAD_PROCESSES, dirs, files, now, kills, ret,
                 calls, fail, legacy>>

\* ---------------------------------------------------------- specification
\* the steps of the tasks the commands spawn
TaskStep(r) ==
  \/ GenSpawnOk(r) \/ GenSpawnErr(r) \/ GenRegister(r)
  \/ GenReadLine(r) \/ GenClearPid(r) \/ GenFinish(r)
  \/ CleanSpawnOk(r) \/ CleanSpawnErr(r) \/ CleanReadLine(r) \/ CleanFinish(r)
  \/ InfSpawnOk(r) \/ InfSpawnErr(r) \/ InfReadLine(r) \/ InfWait(r) \/ InfFail(r)
  \/ ExpSpawnOk(r) \/ ExpSpawnErr(r) \/ ExpReadLine(r) \/ ExpWait(r) \/ ExpFail(r)
  \/ DlSpawnOk(r) \/ DlSpawnErr(r) \/ DlRegister(r) \/ DlReadLine(r)
  \/ DlOutTaskEnd(r) \/ DlErrLine(r) \/ DlWait(r) \/ DlFinish(r)
  \/ CollectErrLine(r) \/ ErrTaskEnd(r)

\* the steps of the worker process of run r, writing lines of `lines`
WorkerStep(r, lines) ==
  \/ \E line \in lines : WorkerWrite(r, line)
  \/ WorkerWriteErr(r)
  \/ WorkerOutput(r)
  \/ \E st \in OwnStatuses : WorkerExit(r, st)
  \/ \E st \in TermStatuses : WorkerTerminate(r, st)

StopStep ==
  \/ stop_generation
  \/ \E k \in Repos : stop_download(k)

\* Spec: one run, of any command, in the first slot
Solo(r) == r = 1

\* a call of any command: it is rejected, or it spawns its task
StartAny(r) ==
  \/ start_cleaning(r) \/ start_cleaningErr(r)
  \/ generate_dataset(r) \/ generate_datasetErr(r)
  \/ start_inference(r) \/ start_inferenceErr(r)
  \/ export_to_ollama(r) \/ export_to_ollamaErr(r)
  \/ \E k \in Repos : download_model(r, k) \/ download_modelErr(r, k)

StartSolo(r) == Solo(r) /\ StartAny(r)

Next ==
  \/ \E r \in Runs : StartSolo(r) \/ TaskStep(r) \/ WorkerStep(r, Lines)
  \/ StopStep

Spec == Init /\ [][Next]_vars

\* SpecConc: overlapping runs of the two commands that register their worker,
\* with workers that write progress lines only and nothing on stderr
StartConc(r) ==
  \/ generate_dataset(r) \/ generate_datasetErr(r)
  \/ \E k \in Repos : download_model(r, k) \/ download_modelErr(r, k)

KeyedTaskStep(r) ==
  \/ GenSpawnOk(r) \/ GenSpawnErr(r) \/ GenRegister(r)
  \/ GenReadLine(r) \/ GenClearPid(r) \/ GenFinish(r)
  \/ DlSpawnOk(r) \/ DlSpawnErr(r) \/ DlRegister(r) \/ DlReadLine(r)
  \/ DlOutTaskEnd(r) \/ ErrTaskEnd(r) \/ DlWait(r) \/ DlFinish(r)

\* a quiet worker: at most one progress line, nothing on stderr, and it ends
\* with exit code 0 or 1 or by the SIGTERM of a stop command
QuietWorkerStep(r) ==
  \/ run[r].written = <<>> /\ WorkerWrite(r, LineProgress)
  \/ \E st \in {Exited(0), Exited(1)} : WorkerExit(r, st)
  \/ WorkerTerminate(r, Signaled(SIGTERM))

\* a quiet worker that no stop command signals
CalmWorkerStep(r) ==
  \/ run[r].written = <<>> /\ WorkerWrite(r, LineProgress)
  \/ \E st \in {Exited(0), Exited(1)} : WorkerExit(r, st)

NextConc ==
  \/ \E r \in Runs : StartConc(r) \/ KeyedTaskStep(r) \/ QuietWorkerStep(r)
  \/ StopStep

SpecConc == Init /\ [][NextConc]_vars

\* SpecStop: one generation run with a quiet worker, and concurrent callers of
\* stop_generation whose calls interleave step by step
GenTaskStep(r) ==
  \/ GenSpawnOk(r) \/ GenSpawnErr(r) \/ GenRegister(r)
  \/ GenReadLine(r) \/ GenClearPid(r) \/ GenFinish(r)

NextStop ==
  \/ \E r \in Runs : Solo(r) /\ (generate_dataset(r) \/ GenTaskStep(r) \/ QuietWorkerStep(r))
  \/ \E c \in Callers : StopGenSwap(c) \/ StopGenReturn(c)

SpecStop == Init /\ [][NextStop]_vars

\* SpecAny: a run of any command in the first slot overlapping with a run of a
\* command that registers its worker in the second, with quiet workers and no
\* stop command
QuietTaskStep(r) ==
  \/ KeyedTaskStep(r)
  \/ CleanSpawnOk(r) \/ CleanSpawnErr(r) \/ CleanReadLine(r) \/ CleanFinish(r)
  \/ InfSpawnOk(r) \/ InfSpawnErr(r) \/ InfReadLine(r) \/ InfWait(r) \/ InfFail(r)
  \/ ExpSpawnOk(r) \/ ExpSpawnErr(r) \/ ExpReadLine(r) \/ ExpWait(r) \/ ExpFail(r)

StartPair(r) ==
  \/ Solo(r) /\ StartAny(r)
  \/ r = 2 /\ StartConc(r)

NextAny == \E r \in Runs : StartPair(r) \/ QuietTaskStep(r) \/ CalmWorkerStep(r)

SpecAny == Init /\ [][NextAny]_vars

\* SpecLines: one run of any command whose worker writes any line, may leave its
\* last line without newline, writes nothing on stderr and exits with 0 or 1
LineWorkerStep(r) ==
  \/ \E line \in AllLines : WorkerWrite(r, line)
  \/ \E line \in AllLines : WorkerWritePartial(r, line)
  \/ \E st \in {Exited(0), Exited(1)} : WorkerExit(r, st)

NextLines == \E r \in Runs : StartSolo(r) \/ QuietTaskStep(r) \/ LineWorkerStep(r)

SpecLines == Init /\ [][NextLines]_vars

\* SpecFs: one generation run with a quiet worker, stop_generation, and a
\* dataset directory that something else may remove at any moment
NextFs ==
  \/ \E r \in Runs :
       Solo(r) /\ (generate_dataset(r) \/ GenTaskStep(r) \/ QuietWorkerStep(r))
  \/ stop_generation
  \/ \E t \in Times : ExternalRemove(t)

SpecFs == Init /\ [][NextFs]_vars

\* SpecList: a dataset directory as earlier sessions may have left it (versions
\* with or without train.jsonl written by an earlier run, 0; the legacy layout),
\* one generation run with a quiet worker, and list_dataset_versions
InitList ==
  /\ run = [r \in Runs |-> IdleRun]
  /\ GENERATION_PID = 0
  /\ DOWNLOAD_PROCESSES = [k \in Repos |-> 0]
  /\ dirs \in SUBSET Times
  /\ files \in [Times -> {{}, {0}}]
  /\ \A t \in Times \ dirs : files[t] = {}
  /\ now = 0
  /\ kills = <<>>
  /\ ret = [op |-> "none", ok |-> TRUE]
  /\ calls = [c \in Callers |-> IdleCall]
  /\ fail = [kind |-> "none", code |-> 0, stderr |-> <<>>, msg |-> NoMessage]
  /\ legacy \in BOOLEAN
  /\ listing = <<>>

NextList ==
  \/ \E r \in Runs :
       Solo(r) /\ (generate_dataset(r) \/ GenTaskStep(r) \/ QuietWorkerStep(r)
                   \/ WorkerOutput(r))
  \/ list_dataset_versions

SpecList == InitList /\ [][NextList]_vars

\* SpecIso: generation runs that overlap in time (each is called while every
\* earlier one has not ended), with quiet workers that write train.jsonl, and no
\* stop command
StartIso(r) ==
  /\ generate_dataset(r)
  /\ \A q \in 1..(r - 1) :
       run[q].kind = "dataset" /\ run[q].pc \in {"spawn", "reg", "read", "wait"}

NextIso ==
  \E r \in Runs : StartIso(r) \/ GenTaskStep(r) \/ CalmWorkerStep(r) \/ WorkerOutput(r)

SpecIso == Init /\ [][NextIso]_vars

\* SpecMsg: the stderr of one failing worker, line by line, then the message
NextMsg ==
  \/ \E kind \in {"cleaning", "dataset", "inference", "export"} : FailingWorker(kind)
  \/ \E line \in ErrLineTexts : WriteStderrLine(line)
  \/ \E code \in FailCodes : SynthesizeError(code)

SpecMsg == Init /\ [][NextMsg]_vars

\* ------------------------------------------------------------------ claims
\* the terminal channels of a command's domain
TerminalChans(k) ==
  CASE k = "cleaning" -> {"cleaning:error"}
    [] k = "dataset" -> {"dataset:version", "dataset:stopped", "dataset:error"}
    [] k = "inference" -> {"inference:error"}
    [] k = "export" -> {"export:error"}
    [] k = "download" -> {"download-finished"}
    [] OTHER -> {}

\* positions in run r's event log of the events on a terminal channel
Terminals(r) ==
  {i \in DOMAIN run[r].events : run[r].events[i].chan \in TerminalChans(run[r].kind)}
\* those the supervisor synthesized
SupTerminals(r) == {i \in Terminals(r) : run[r].events[i].src = "supervisor"}
StdoutEvents(r) == {i \in DOMAIN run[r].events : run[r].events[i].src = "stdout"}
Chan(r, c) == {i \in DOMAIN run[r].events : run[r].events[i].chan = c}

Keyed(r) == run[r].kind \in {"dataset", "download"}
Spawned(r) == run[r].child # "none"
Unreaped(r) == run[r].child \in {"running", "blocked", "zombie"}
\* the process id the registry holds under run r's key
Registered(r) ==
  IF run[r].kind = "dataset" THEN GENERATION_PID
  ELSE IF run[r].kind = "download" THEN DOWNLOAD_PROCESSES[run[r].repo]
  ELSE 0

\* C1 (as claimed): a run whose task has ended has emitted an event on a terminal
\* channel of its domain (synthesized, or the worker's own error event forwarded).
C1_NoSilence ==
  \A r \in Runs : run[r].pc = "done" => Terminals(r) # {}

\* C2: on every exit path the supervisor itself emits at most one event on the
\* domain's terminal channels.
C2_AtMostOneTerminal ==
  \A r \in Runs : Cardinality(SupTerminals(r)) <= 1

\* C2 witness: a run that ended on the wait-error path with its one terminal event
C2_Witness ==
  \E r \in Runs :
    /\ run[r].pc = "done" /\ Spawned(r) /\ ~run[r].waitOk
    /\ Cardinality(SupTerminals(r)) = 1

\* C3 (as claimed): once the supervisor's terminal event of a spawned run is in the log, every
\* stdout line written has been read (end of stream), the worker is reaped, and
\* no stdout-derived event follows the terminal event.
C3_TerminalAfterDrainAndReap ==
  \A r \in Runs : \A i \in SupTerminals(r) :
    Spawned(r) =>
      /\ run[r].readPos = Len(run[r].written)
      /\ run[r].child = "reaped"
      /\ \A j \in StdoutEvents(r) : j < i

\* C4 (as claimed): when the terminal event of a generation run is out, the
\* directory was promoted or kept as final on success and is gone otherwise.
C4_NoStagingLeft ==
  \A r \in Runs : \A i \in SupTerminals(r) :
    run[r].kind = "dataset" =>
      IF run[r].events[i].chan = "dataset:version"
        THEN run[r].fsRes \in {"renamed", "kept"}
        ELSE run[r].ts \notin dirs

\* C4 (amended): ... and otherwise remove_dir_all was called on it: the directory
\* is gone unless that removal failed, in which case it stays behind.
C4_DiscardAttempted ==
  \A r \in Runs : \A i \in SupTerminals(r) :
    run[r].kind = "dataset" =>
      IF run[r].events[i].chan = "dataset:version"
        THEN /\ run[r].fsRes \in {"renamed", "kept"}
             /\ run[r].events[i].version \in dirs
        ELSE \/ run[r].ts \notin dirs /\ run[r].fsRes = "removed"
             \/ run[r].ts \in dirs /\ run[r].fsRes = "removeFailed"

\* C4 witness: a run ended by a signal whose directory was removed
C4_Witness ==
  \E r \in Runs :
    /\ run[r].kind = "dataset" /\ run[r].pc = "done"
    /\ run[r].status.signaled /\ run[r].waitOk
    /\ run[r].fsRes = "removed" /\ run[r].ts \notin dirs

\* what a terminal event of a cancellable run tells its listener
Reported(e) ==
  CASE e.chan = "dataset:version" -> "success"
    [] e.chan = "dataset:stopped" -> "cancelled"
    [] e.chan = "dataset:error" -> "failed"
    [] e.chan = "download-finished" /\ e.ok -> "success"
    [] OTHER -> "failed"

\* the outcomes the claim allows for an exit: success for code 0, cancelled for
\* an exit the delivered stop signal caused, failed for any other exit code
Allowed(r) ==
  IF Success(run[r].status) THEN {"success"}
  ELSE IF run[r].cause = "stop" THEN {"cancelled"}
  ELSE IF ~run[r].status.signaled THEN {"failed"}
  ELSE {"cancelled", "failed"}

\* C5 (as claimed): the terminal event of a cancellable run whose wait returned a
\* status reports success, cancelled or failed as the exit status demands.
C5_OutcomeByExitStatus ==
  \A r \in Runs : \A i \in SupTerminals(r) :
    (Keyed(r) /\ Spawned(r) /\ run[r].waitOk) =>
      Reported(run[r].events[i]) \in Allowed(r)

\* a generation run a stop_generation call acknowledged and whose worker then
\* ended because of the signal
UserStopped(r) ==
  /\ run[r].kind = "dataset"
  /\ run[r].stopAcked
  /\ run[r].cause = "stop"

\* C6 (as claimed): a user-stopped generation run ends with its directory removed
\* and with exactly one dataset:stopped event, which no dataset:error follows.
C6_UserStopAsClaimed ==
  \A r \in Runs :
    UserStopped(r) =>
      /\ run[r].pc # "done" => ENABLED TaskStep(r)
      /\ run[r].pc = "done" =>
           /\ run[r].ts \notin dirs
           /\ Cardinality(Chan(r, "dataset:stopped")) = 1
           /\ \A i \in Chan(r, "dataset:error") :
                \A j \in Chan(r, "dataset:stopped") : i < j

\* C6 (amended): a user-stopped generation run always has a next step until it
\* ends; it ends with exactly one terminal event, which is dataset:stopped when
\* child.wait() returned the status (dataset:error when wait itself failed), no
\* dataset:error follows dataset:stopped, and the directory is gone unless
\* remove_dir_all failed.
C6_UserStop ==
  \A r \in Runs :
    UserStopped(r) =>
      /\ run[r].pc # "done" => ENABLED TaskStep(r)
      /\ run[r].pc = "done" =>
           /\ run[r].ts \notin dirs \/ run[r].fsRes = "removeFailed"
           /\ Cardinality(SupTerminals(r)) = 1
           /\ Cardinality(Chan(r, "dataset:stopped")) = (IF run[r].waitOk THEN 1 ELSE 0)
           /\ \A i \in Chan(r, "dataset:error") :
                \A j \in Chan(r, "dataset:stopped") : i < j

\* C6 witness: a user-stopped run that ended with dataset:stopped, directory gone
C6_Witness ==
  \E r \in Runs :
    /\ UserStopped(r) /\ run[r].pc = "done" /\ run[r].waitOk
    /\ run[r].ts \notin dirs
    /\ Len(run[r].events) \in Chan(r, "dataset:stopped")

\* a step of a stderr reader of run r that takes a line out of the pipe
DrainStderr(r) == CollectErrLine(r) \/ DlErrLine(r)

\* C7 (as claimed): a worker blocked in a write to its full stderr pipe has a
\* reader that can take a line out of that pipe, so the write goes on.
C7_StderrDrained ==
  \A r \in Runs : run[r].child = "blocked" => ENABLED DrainStderr(r)

\* run r has passed the point where it clears its registry entry
Deregistered(r) ==
  IF run[r].kind = "dataset" THEN run[r].pc \in {"wait", "done"}
  ELSE run[r].pc = "done"

\* C8 (as claimed): while a keyed run that has emitted a stdout event has not yet
\* deregistered, the registry holds its process id under its key, so that a stop
\* request finds it.
C8_StopAlwaysFinds ==
  \A r \in Runs :
    (Keyed(r) /\ StdoutEvents(r) # {} /\ ~Deregistered(r)) => Registered(r) = r

\* C8 (amended): a keyed run has stored its process id before it reads the first
\* stdout line; and while it has emitted a stdout event and has not deregistered,
\* the registry holds its process id unless an earlier stop_generation took the
\* id out of the slot or another run wrote or removed the entry under the same key.
C8_RegisteredBeforeRead ==
  \A r \in Runs :
    Keyed(r) =>
      /\ (run[r].readPos > 0 \/ StdoutEvents(r) # {}) => run[r].regSeq > 0
      /\ ( /\ StdoutEvents(r) # {}
           /\ ~Deregistered(r)
           /\ ~(run[r].kind = "dataset" /\ run[r].stopAcked)
           /\ ~run[r].clobbered )
         => Registered(r) = r

\* C8 witness: a stop command has just returned Ok for a run that had emitted a
\* stdout event and is still registered-side of its deregistration
C8_Witness ==
  \E r \in Runs :
    /\ Keyed(r) /\ StdoutEvents(r) # {} /\ ~Deregistered(r)
    /\ run[r].stopAcked /\ ret.ok /\ kills # <<>> /\ kills[Len(kills)] = r

\* C9 (as claimed): from registration until child.wait() has returned, and as
\* long as no stop command cancelled the run, the registry maps the run's key to
\* the worker's process id.
C9_EntryUntilReap ==
  \A r \in Runs :
    (Keyed(r) /\ Unreaped(r) /\ run[r].regSeq > 0 /\ ~run[r].stopAcked)
      => Registered(r) = r

\* C10: once the supervisor's terminal event of a spawned keyed run is out, the
\* registry does not hold that run's process id, whatever wait returned.
C10_DeregisteredAtTerminal ==
  \A r \in Runs :
    (Keyed(r) /\ Spawned(r) /\ SupTerminals(r) # {}) => Registered(r) # r

\* C10 witness: a download whose child.wait() returned an error has emitted
\* download-finished and its key is out of the map
C10_Witness ==
  \E r \in Runs :
    /\ run[r].kind = "download" /\ run[r].pc = "done"
    /\ run[r].regSeq > 0 /\ ~run[r].waitOk
    /\ SupTerminals(r) # {}
    /\ DOWNLOAD_PROCESSES[run[r].repo] = 0

\* the registry as a whole
Registry == <<GENERATION_PID, DOWNLOAD_PROCESSES>>
\* the runs whose living worker has a SIGTERM pending
Signalled == {r \in Runs : run[r].sigterm}
\* a stop command called on a key the registry does not track
StopMiss ==
  \/ GENERATION_PID = 0 /\ stop_generation
  \/ \E k \in Repos : DOWNLOAD_PROCESSES[k] = 0 /\ stop_download(k)

\* C11: a stop command on an untracked key (stop_generation with the slot at 0,
\* stop_download(k) with no entry for k) returns the not-found error, calls kill
\* on nothing, signals no process and leaves the registry unchanged.
C11_MissIsHarmless ==
  [][StopMiss =>
       /\ ~ret'.ok
       /\ kills' = <<>>
       /\ Signalled' = Signalled
       /\ Registry' = Registry]_vars

\* C11 witness: stop_download has just missed while a generation run is tracked
\* and its worker is alive and unsignalled
C11_Witness ==
  /\ ret = [op |-> "stop_download", ok |-> FALSE]
  /\ kills = <<>>
  /\ GENERATION_PID # 0
  /\ run[GENERATION_PID].child = "running"
  /\ ~run[GENERATION_PID].sigterm

\* C12 (as claimed): a stop command that finds a process id under its key leaves
\* no process id under that key (so that a repeated stop misses).
C12_HitClearsEntry ==
  [][/\ (GENERATION_PID # 0 /\ stop_generation) => GENERATION_PID' = 0
     /\ \A k \in Repos :
          (DOWNLOAD_PROCESSES[k] # 0 /\ stop_download(k)) => DOWNLOAD_PROCESSES'[k] = 0]_vars

\* C13 (as claimed): the kill calls of the last stop command that returned Ok are
\* the process group (negative id) first, then the process id itself.
C13_GroupThenProcess ==
  (ret.op \in {"stop_generation", "stop_download"} /\ ret.ok) =>
    \E pid \in Runs : kills = <<-pid, pid>>

\* the stop command for the key of keyed run r
StopKeyOf(r) ==
  IF run[r].kind = "dataset" THEN stop_generation ELSE stop_download(run[r].repo)

\* the worker of run r has exited (reaped or not)
Exitted(r) == run[r].child \in {"zombie", "reaped"}

\* C14 (as claimed): a stop command on the key of a keyed run whose worker has
\* already exited returns the not-found error and calls kill on nothing.
C14_StopAfterExitMisses ==
  [][\A r \in Runs :
       (Keyed(r) /\ Exitted(r) /\ StopKeyOf(r)) => (~ret'.ok /\ kills' = <<>>)]_vars

\* the generation runs whose worker process is alive
GenerationInFlight ==
  {r \in Runs : run[r].kind = "dataset" /\ run[r].child \in {"running", "blocked"}}

\* C15 (as claimed): at most one generate_dataset worker is in flight at any
\* moment.
C15_SinglePrimary == Cardinality(GenerationInFlight) <= 1

\* runs a and b register under the same key
SameKey(a, b) ==
  /\ run[a].kind = run[b].kind
  /\ run[a].kind = "download" => run[a].repo = run[b].repo

\* run b is the last run to have registered under its key
LastWriter(b) ==
  /\ run[b].regSeq > 0
  /\ \A a \in Runs \ {b} : SameKey(a, b) => run[a].regSeq < run[b].regSeq

\* C16 (as claimed): the last run to register under a key stays tracked: until it
\* deregisters itself or is cancelled, the registry holds its process id, whatever
\* the earlier holders of the key do.
C16_LastWriterStaysTracked ==
  \A b \in Runs :
    ( /\ Keyed(b) /\ LastWriter(b)
      /\ ~Deregistered(b)
      /\ ~(run[b].kind = "dataset" /\ run[b].stopAcked) )
    => Registered(b) = b

\* C17: stop_download(k) calls kill on the process id registered under k only,
\* changes no run but that one, and leaves the generation slot and the entry of
\* every other key as they were.
C17_KeyedStopIsolated ==
  [][\A k \in Repos :
       stop_download(k) =>
         LET pid == DOWNLOAD_PROCESSES[k] IN
         /\ \A j \in Repos \ {k} : DOWNLOAD_PROCESSES'[j] = DOWNLOAD_PROCESSES[j]
         /\ GENERATION_PID' = GENERATION_PID
         /\ \A r \in Runs \ {pid} : run'[r] = run[r]
         /\ \A n \in DOMAIN kills' : kills'[n] = pid]_vars

\* C17 witness: two downloads with distinct repo ids are running and registered;
\* stop_download has just returned Ok for one of them, which has the signal
\* pending, while the other has none
C17_Witness ==
  \E a, b \in Runs :
    /\ run[a].kind = "download" /\ run[b].kind = "download"
    /\ run[a].repo # run[b].repo
    /\ DOWNLOAD_PROCESSES[run[a].repo] = a /\ DOWNLOAD_PROCESSES[run[b].repo] = b
    /\ run[a].child = "running" /\ run[b].child = "running"
    /\ ret = [op |-> "stop_download", ok |-> TRUE] /\ kills = <<a>>
    /\ run[a].sigterm /\ ~run[b].sigterm /\ ~run[b].stopAcked

\* the callers whose swap returned the process id of run r
Observers(r) == {c \in Callers : calls[c].pc # "idle" /\ calls[c].pid = r}

\* C18: concurrent stop_generation calls are serialized by the swap: no two calls
\* observe the same process id; a call returns Ok exactly when it observed one;
\* and while a registered run has not cleared the slot itself, the slot is empty
\* exactly when one call has taken its id (that call wins, every other misses).
C18_OneStopWins ==
  /\ \A r \in Runs : Cardinality(Observers(r)) <= 1
  /\ \A c \in Callers : calls[c].pc = "returned" => (calls[c].ok <=> calls[c].pid # 0)
  /\ \A r \in Runs :
       (run[r].kind = "dataset" /\ run[r].pc = "read") =>
         IF GENERATION_PID = 0 THEN Cardinality(Observers(r)) = 1
         ELSE GENERATION_PID = r /\ Observers(r) = {}
  /\ \A r \in Runs : run[r].stopAcked <=> \E c \in Observers(r) : calls[c].pc = "returned"

\* C18 witness: two calls against one tracked run have both returned, one with
\* Ok and the kills, the other, the last to return, with not-found
C18_Witness ==
  \E r \in Runs : \E c1, c2 \in Callers :
    /\ c1 # c2
    /\ run[r].kind = "dataset" /\ run[r].pc = "read" /\ run[r].stopAcked
    /\ calls[c1].pc = "returned" /\ calls[c1].ok /\ calls[c1].pid = r
    /\ calls[c2].pc = "returned" /\ ~calls[c2].ok
    /\ ~ret.ok /\ kills = <<>>

\* the error channel of the domains that forward the worker's typed events
ErrorChan(k) ==
  CASE k = "cleaning" -> "cleaning:error"
    [] k = "dataset" -> "dataset:error"
    [] k = "inference" -> "inference:error"
    [] k = "export" -> "export:error"
    [] OTHER -> "none"

\* the error events of run r the worker wrote itself, and those the supervisor made
WorkerErrors(r) == {i \in StdoutEvents(r) : run[r].events[i].chan = ErrorChan(run[r].kind)}
SupErrors(r) == {i \in SupTerminals(r) : run[r].events[i].chan = ErrorChan(run[r].kind)}

\* C19 (as claimed): in a run whose worker had an error event of its own forwarded
\* and then exited non-zero, the supervisor emits no error event of its own.
C19_NoDoubleReport ==
  \A r \in Runs :
    ( /\ run[r].pc = "done" /\ run[r].waitOk
      /\ Spawned(r) /\ ~Success(run[r].status)
      /\ WorkerErrors(r) # {} )
    => SupErrors(r) = {}

\* the stderr of the failing worker has at least one line and no blank line
PlainStderr ==
  /\ fail.stderr # <<>>
  /\ \A i \in DOMAIN fail.stderr : fail.stderr[i] # <<>>

\* C20 (as claimed): the message synthesized for a failed worker that wrote n >= 1
\* lines on stderr, none of them blank, is the last min(8, n) of those lines, in
\* their order, joined by newlines: never more than 8 lines.
C20_MessageIsStderrTail ==
  (fail.msg # NoMessage /\ PlainStderr) =>
    /\ fail.msg = Join(LastN(fail.stderr, TailLines))
    /\ Len(SplitNL(fail.msg)) <= TailLines

\* Command::spawn() returned Err for run r, whatever its command
SpawnErr(r) ==
  \/ GenSpawnErr(r) \/ CleanSpawnErr(r) \/ InfSpawnErr(r) \/ ExpSpawnErr(r)
  \/ DlSpawnErr(r)

\* the event log of run r is one event, a Failed terminal event of its domain
\* made by the supervisor
OneFailed(r) ==
  /\ Len(run[r].events) = 1
  /\ run[r].events[1].src = "supervisor"
  /\ \/ run[r].events[1].chan = ErrorChan(run[r].kind)
     \/ run[r].events[1].chan = "download-finished" /\ ~run[r].events[1].ok

\* C21 (as claimed): when spawn fails, the run ends with exactly one Failed
\* terminal event, the registry is left as it was, and the staging directory of a
\* generation run is gone.
C21_SpawnFailureAsClaimed ==
  [][\A r \in Runs :
       SpawnErr(r) =>
         /\ run'[r].pc = "done" /\ OneFailed(r)'
         /\ Registry' = Registry
         /\ run[r].kind = "dataset" => run[r].ts \notin dirs']_vars

\* C21 (amended): ... and remove_dir_all was called on the staging directory of a
\* generation run: it is gone unless that removal failed.
C21_SpawnFailure ==
  [][\A r \in Runs :
       SpawnErr(r) =>
         /\ run'[r].pc = "done" /\ OneFailed(r)'
         /\ Registry' = Registry
         /\ run[r].kind = "dataset" =>
              \/ run[r].ts \notin dirs'
              \/ run'[r].fsRes = "removeFailed" /\ dirs' = dirs]_vars

\* C21 witness: a generation run ended at the spawn failure with its one
\* dataset:error and its directory removed, while the worker of another run is
\* alive and registered
C21_Witness ==
  \E a, b \in Runs :
    /\ run[a].kind = "dataset" /\ run[a].pc = "done" /\ ~Spawned(a)
    /\ OneFailed(a) /\ run[a].fsRes = "removed" /\ run[a].ts \notin dirs
    /\ Keyed(b) /\ run[b].child = "running" /\ Registered(b) = b

\* a command call of run r returned Err at a precondition check
PreconditionErr(r) ==
  \/ generate_datasetErr(r) \/ start_cleaningErr(r) \/ start_inferenceErr(r)
  \/ export_to_ollamaErr(r)
  \/ \E k \in Repos : download_modelErr(r, k)

\* C22: a command that fails a precondition returns Err and does nothing else:
\* the step creates no directory, spawns no process, emits no event and leaves
\* the registry as it was; and the rejected call has no task that could do any
\* of that later.
C22_NoRunAttempted ==
  /\ [][\A r \in Runs :
          PreconditionErr(r) =>
            /\ run'[r].pc = "rejected" /\ run'[r].err # "none"
            /\ dirs' = dirs /\ files' = files
            /\ \A q \in Runs : /\ run'[q].child = run[q].child
                               /\ run'[q].events = run[q].events
            /\ Registry' = Registry]_vars
  /\ [](\A r \in Runs :
          run[r].pc = "rejected" =>
            /\ ~Spawned(r) /\ run[r].events = <<>> /\ run[r].ts = -1
            /\ run[r].regSeq = 0
            /\ ~ENABLED TaskStep(r))

\* C22 witness: generate_dataset was rejected for a missing script: no directory
\* exists, while the worker of another run is alive and registered
C22_Witness ==
  \E a, b \in Runs :
    /\ run[a].pc = "rejected" /\ run[a].kind = "dataset"
    /\ run[a].err = "ScriptNotFound"
    /\ run[b].kind = "download" /\ run[b].child = "running" /\ Registered(b) = b
    /\ dirs = {}

\* the channel prefix of the domains that route stdout lines by type
Prefix(k) ==
  CASE k = "cleaning" -> "cleaning"
    [] k = "dataset" -> "dataset"
    [] k = "inference" -> "inference"
    [] k = "export" -> "export"
    [] OTHER -> "none"

\* one turn of the stdout loop of a run of those domains
ReadLineStep(r) == CleanReadLine(r) \/ GenReadLine(r) \/ InfReadLine(r) \/ ExpReadLine(r)

\* the line is a JSON object; the object has a `type` field that is a string
IsObject(line) == line \in {LineProgress, LineError, LineNoType, LineNumType}
HasType(line) == line \in {LineProgress, LineError}

\* C23 (as claimed): in every domain that has a prefix, a line read from stdout
\* that is a JSON object with a type is emitted on prefix:<type>, and a line that
\* is not a JSON object (malformed JSON, a JSON scalar, plain text) is emitted on
\* prefix:log with its text; no such line goes without event or to a typed
\* channel.  (An object without a type is the case of C24.)
C23_LineRouting ==
  [][\A r \in Runs :
       (ReadLineStep(r) /\ Utf8Ok(NextLine(r))) =>
         LET line == NextLine(r)
             prefix == Prefix(run[r].kind)
         IN
         IF HasType(line)
           THEN run'[r].events =
                  Append(run[r].events, StdoutEv(prefix \o ":" \o EventType(line), line))
           ELSE IF IsObject(line) THEN TRUE
           ELSE run'[r].events = Append(run[r].events, StdoutEv(prefix \o ":log", line))]_vars

\* C24: in every domain that has a prefix, a line read from stdout that is a JSON
\* object without a string type is emitted on prefix:unknown, as one event that
\* carries the line, and on no other channel.
C24_DefaultTypeUnknown ==
  [][\A r \in Runs :
       ( /\ ReadLineStep(r)
         /\ IsObject(NextLine(r)) /\ ~HasType(NextLine(r)) ) =>
         run'[r].events =
           Append(run[r].events,
                  StdoutEv(Prefix(run[r].kind) \o ":unknown", NextLine(r)))]_vars

\* C24 witness: a generation run has read an object without type and an object
\* whose type is a number, and both are in its log on dataset:unknown
C24_Witness ==
  \E r \in Runs :
    /\ run[r].kind = "dataset" /\ run[r].readPos = 2
    /\ run[r].written = <<LineNoType, LineNumType>>
    /\ run[r].events = <<StdoutEv("dataset:unknown", LineNoType),
                         StdoutEv("dataset:unknown", LineNumType)>>

\* the number of stdout lines of run r that end with a newline
CompleteLines(r) ==
  IF run[r].partial THEN Len(run[r].written) - 1 ELSE Len(run[r].written)

\* C25 (as claimed): only newline-terminated lines produce events: in the domains
\* that emit an event for every line they read, a run has at most as many
\* stdout events as its worker wrote complete lines, so the unterminated bytes at
\* the end of the stream have none.
C25_PartialLineDiscarded ==
  \A r \in Runs :
    run[r].kind \in {"cleaning", "dataset", "download"} =>
      Cardinality(StdoutEvents(r)) <= CompleteLines(r)

\* the events of run r forwarded from its worker's stdout, in the order emitted
FromStdout(e) == e.src = "stdout"
StdoutLog(r) == SelectSeq(run[r].events, FromStdout)

\* C26 (as claimed): the stdout events of a run are, one for one and in the same
\* order, the lines the task has read so far, and when the run has ended these
\* are all the complete lines the worker wrote: none is skipped, doubled or out
\* of order.
C26_EventOrderIsLineOrder ==
  \A r \in Runs :
    /\ Len(StdoutLog(r)) = run[r].readPos
    /\ \A i \in 1..Len(StdoutLog(r)) :
         i <= Len(run[r].written) => StdoutLog(r)[i].line = run[r].written[i]
    /\ (run[r].pc = "done" /\ Spawned(r)) => run[r].readPos = CompleteLines(r)

\* the step of run r that ends a zero-exit generation run: the rename and the
\* dataset:version event
GenPromote(r) ==
  /\ GenFinish(r)
  /\ run'[r].events[Len(run'[r].events)].chan = "dataset:version"

\* C27 (as claimed): after the promotion of a zero-exit generation run, if the
\* rename succeeded a directory exists at dataset/<completion timestamp> and none
\* at the staging path (unless the two paths are the same), and if the rename
\* failed the staging path still exists.
C27_PromoteRoundTrip ==
  [][\A r \in Runs :
       GenPromote(r) =>
         IF run'[r].fsRes = "renamed"
           THEN /\ now' \in dirs'
                /\ now' # run[r].ts => run[r].ts \notin dirs'
           ELSE run[r].ts \in dirs']_vars

\* C28 (as claimed): the step that ends a zero-exit generation run emits the run's
\* one terminal event, a dataset:version that carries the completion timestamp
\* if the rename succeeded and the staging timestamp if it failed, and a
\* directory exists under the identifier it carries; a failed rename gives no
\* dataset:error and no dataset:stopped.
C28_VersionIsTruthful ==
  [][\A r \in Runs :
       (GenFinish(r) /\ run'[r].waitOk /\ Success(run[r].status)) =>
         LET e == run'[r].events[Len(run'[r].events)] IN
         /\ e.chan = "dataset:version"
         /\ Cardinality(SupTerminals(r)') = 1
         /\ e.version = (IF run'[r].fsRes = "renamed" THEN now' ELSE run[r].ts)
         /\ e.version \in dirs']_vars

\* C29: on the paths of a generation run that discard the staging directory
\* (spawn failure, wait error, non-zero exit, stop), the step ends the run with
\* the terminal event the path calls for and nothing else, whether the removal
\* succeeded, failed, or found the directory already gone.
C29_DiscardNeverEscalates ==
  [][\A r \in Runs :
       /\ GenSpawnErr(r) =>
            /\ run'[r].pc = "done"
            /\ run'[r].fsRes \in {"removed", "removeFailed", "missing"}
            /\ run'[r].events = <<SupEv("dataset:error")>>
       /\ (GenFinish(r) /\ ~(run'[r].waitOk /\ Success(run[r].status))) =>
            /\ run'[r].pc = "done"
            /\ run'[r].fsRes \in {"removed", "removeFailed", "missing"}
            /\ run'[r].events =
                 Append(run[r].events,
                        SupEv(IF run'[r].waitOk THEN GenOutcome(run[r].status)
                              ELSE "dataset:error"))]_vars

\* C29 witness: a stopped generation run whose staging directory had been removed
\* by something else has ended with dataset:stopped
C29_Witness ==
  \E r \in Runs :
    /\ UserStopped(r) /\ run[r].pc = "done" /\ run[r].waitOk
    /\ run[r].fsRes = "missing"
    /\ run[r].events[Len(run[r].events)] = SupEv("dataset:stopped")

\* the entry is the synthetic one of the legacy layout
IsLegacy(v) == v = LegacyName

\* C30 (as claimed): in what list_dataset_versions returns, the timestamped
\* entries are in descending order of their identifier, newest first, and the
\* "legacy" entry, if there is one, comes after every timestamped entry.
C30_ListingOrder ==
  /\ \A i, j \in DOMAIN listing :
       (i < j /\ ~IsLegacy(listing[i]) /\ ~IsLegacy(listing[j]))
         => StrCmp(listing[i], listing[j]) = 1
  /\ \A i \in DOMAIN listing : IsLegacy(listing[i]) => i = Len(listing)

\* a generation run whose task is spawned and has emitted no terminal event yet
Unfinished(r) ==
  run[r].kind = "dataset" /\ run[r].pc \in {"spawn", "reg", "read", "wait"}

\* C31 (as claimed): what a list_dataset_versions call returns has no entry for
\* the staging directory of a generation run that has not yet emitted its
\* terminal event, whatever the worker has written into that directory (a
\* directory no earlier session left a version in).
C31_ListingOnlyFinalized ==
  [][list_dataset_versions =>
       \A r \in Runs :
         (Unfinished(r) /\ 0 \notin files[run[r].ts]) =>
           \A i \in DOMAIN listing' : listing'[i] # TsName(run[r].ts)]_vars

\* the step of run r that deregisters its key: GENERATION_PID.store(0), or
\* map.remove(&repo_id)
DeregisterStep(r) == GenClearPid(r) \/ DlFinish(r)

\* C32: a deregister step of a run whose key has no entry (the slot is already 0,
\* the map has no entry for the repo_id) is no error, the task goes on as after
\* any deregister (a download emits its download-finished), and the whole
\* registry is as it was; after any deregister step the key has no entry, so a
\* second deregister has no further effect.
C32_DeregisterIdempotent ==
  [][\A r \in Runs :
       DeregisterStep(r) =>
         /\ Registered(r)' = 0
         /\ Registered(r) = 0 =>
              /\ Registry' = Registry
              /\ IF run[r].kind = "dataset"
                   THEN run'[r].pc = "wait" /\ run'[r].events = run[r].events
                   ELSE /\ run'[r].pc = "done"
                        /\ Len(run'[r].events) = Len(run[r].events) + 1
                        /\ run'[r].events[Len(run'[r].events)].chan = "download-finished"]_vars

\* C32 witness: two downloads of one repo_id overlapped (the later registration
\* overwrote the earlier one) and both have ended: the second map.remove found
\* no entry
C32_Witness ==
  \E r, q \in Runs :
    /\ r # q
    /\ run[r].kind = "download" /\ run[q].kind = "download"
    /\ run[r].repo = run[q].repo
    /\ run[r].regSeq > 0 /\ run[q].regSeq > run[r].regSeq
    /\ run[r].clobbered
    /\ run[r].pc = "done" /\ run[q].pc = "done"
    /\ DOWNLOAD_PROCESSES[run[r].repo] = 0

\* the command of a keyed run r has returned Ok and the run has not emitted its
\* terminal event yet
Acknowledged(r) ==
  /\ Keyed(r)
  /\ run[r].pc \in {"spawn", "reg", "read", "wait", "join", "dereg"}

\* C33 (as claimed): a stop command on the key of a keyed run, issued after the
\* run's command returned Ok and before the run's terminal event (and with no
\* earlier stop acknowledged for the run), does not return the not-found error.
C33_NoCancellationGap ==
  [][\A r \in Runs :
       (Acknowledged(r) /\ ~run[r].stopAcked /\ StopKeyOf(r)) => ret'.ok]_vars

\* C34 (as claimed): a generation run has a dataset:stopped event only if a
\* stop_generation call found its process id and returned Ok; a run whose worker
\* ended by itself with a non-zero exit code, or by a signal that no stop
\* command sent, ends with a dataset:error event.
C34_StoppedMeansRequested ==
  \A r \in Runs :
    run[r].kind = "dataset" =>
      /\ Chan(r, "dataset:stopped") # {} => run[r].stopAcked
      /\ ( /\ run[r].pc = "done" /\ Spawned(r)
           /\ run[r].cause = "self" /\ ~Success(run[r].status) )
         => Chan(r, "dataset:error") # {}

\* the step of run r that promotes or discards its directory
PromoteOrDiscard(r) == GenFinish(r) \/ GenSpawnErr(r)

\* every run other than r has ended (or was never called)
OthersEnded(r) == \A q \in Runs \ {r} : run[q].pc \in {"idle", "rejected", "done"}

\* the staging identifier of generation run r is that of no other generation run
OwnStaging(r) ==
  \A q \in Runs \ {r} : run[q].kind = "dataset" => run[q].ts # run[r].ts

\* C35 (as claimed): for overlapping generation runs with distinct staging
\* identifiers, the promote or discard step of one run leaves the staging
\* directory of another, unfinished run as it is (it exists or not as before,
\* with the same output in it); and once every other run has ended, the
\* directory named in a run's dataset:version event exists.
C35_DirectoryIsolation ==
  /\ [][\A r, q \in Runs :
          ( /\ r # q /\ PromoteOrDiscard(r)
            /\ Unfinished(q) /\ run[q].ts # run[r].ts )
          => /\ (run[q].ts \in dirs') = (run[q].ts \in dirs)
             /\ files'[run[q].ts] = files[run[q].ts]]_vars
  /\ [](\A r \in Runs : \A i \in Chan(r, "dataset:version") :
          (run[r].kind = "dataset" /\ OwnStaging(r) /\ OthersEnded(r))
            => run[r].events[i].version \in dirs)
====
